---- MODULE Spec2Model ----
(***************************************************************************)
(* Model of src/main.py: NiftyAnalyzer (_load_data, analyze) and the       *)
(* __main__ flow that drives it.                                           *)
(*                                                                         *)
(* Text (headers, cells) is a sequence of one-character strings, so that   *)
(* str.strip, Series.replace and pd.to_numeric are computed on the         *)
(* characters.  A float is an integer count of 1/Scale units, with three   *)
(* values set apart for NaN, +inf and -inf.                                *)
(***************************************************************************)
EXTENDS Integers, Sequences, FiniteSets, TLC

VARIABLES csv_file, df, extracts, printed, plotted, pc, calls

vars == <<csv_file, df, extracts, printed, plotted, pc, calls>>

(***************************************************************************)
(* Bounds of the explored inputs.                                          *)
(***************************************************************************)
\* longest file made of well-formed rows only
MaxRows == 7
\* longest file whose rows are drawn from the whole row pool
MaxDirtyRows == 2
\* longest file explored under a header row other than the exact one
MaxHdrRows == 1
\* most analyze() calls made on one analyzer object
MaxCalls == 2

(***************************************************************************)
(* Floats.                                                                 *)
(***************************************************************************)
\* units per 1.0: one decimal digit is kept exactly
Scale == 10
NaN == 0 - 10000000
PosInf == 1000000
NegInf == 0 - 1000000

IsNaN(v) == v = NaN
IsInf(v) == v = PosInf \/ v = NegInf
IsFinite(v) == ~IsNaN(v) /\ ~IsInf(v)

\* k * v for an integer k > 0, as IEEE does it for an infinite v
Times(k, v) == IF IsInf(v) THEN v ELSE k * v

(***************************************************************************)
(* Text.                                                                   *)
(***************************************************************************)
Whitespace == {" ", "\t"}
Digits == {"0", "1", "2", "3", "4", "5", "6", "7", "8", "9"}

DigitVal(c) ==
    CASE c = "0" -> 0 [] c = "1" -> 1 [] c = "2" -> 2 [] c = "3" -> 3
      [] c = "4" -> 4 [] c = "5" -> 5 [] c = "6" -> 6 [] c = "7" -> 7
      [] c = "8" -> 8 [] c = "9" -> 9

Lower(c) ==
    CASE c = "I" -> "i" [] c = "N" -> "n" [] c = "F" -> "f" [] c = "A" -> "a"
      [] OTHER -> c

LowerStr(s) == [i \in 1..Len(s) |-> Lower(s[i])]

RECURSIVE LStrip(_)
LStrip(s) == IF s # <<>> /\ Head(s) \in Whitespace THEN LStrip(Tail(s)) ELSE s

RECURSIVE RStrip(_)
RStrip(s) ==
    IF s # <<>> /\ s[Len(s)] \in Whitespace
    THEN RStrip(SubSeq(s, 1, Len(s) - 1))
    ELSE s

\* a strip of the leading whitespace only
StripLeadingOnly(s) == LStrip(s)

\* str.strip()
strip(s) == RStrip(LStrip(s))

RECURSIVE NatOf(_)
NatOf(s) ==
    IF s = <<>> THEN 0
    ELSE NatOf(SubSeq(s, 1, Len(s) - 1)) * 10 + DigitVal(s[Len(s)])

RECURSIVE Pow10(_)
Pow10(n) == IF n = 0 THEN 1 ELSE 10 * Pow10(n - 1)

AllDigits(s) == \A i \in 1..Len(s) : s[i] \in Digits

\* position of the first "." of s, or Len(s) + 1
DotPos(s) ==
    IF \E i \in 1..Len(s) : s[i] = "."
    THEN CHOOSE i \in 1..Len(s) : s[i] = "." /\ \A j \in 1..(i - 1) : s[j] # "."
    ELSE Len(s) + 1

\* an unsigned decimal: digits, optionally a point and more digits
IsDecimal(s) ==
    LET d == DotPos(s)
        ip == SubSeq(s, 1, d - 1)
        fp == SubSeq(s, d + 1, Len(s))
    IN /\ AllDigits(ip) /\ AllDigits(fp)
       /\ Len(ip) + Len(fp) > 0

DecimalVal(s) ==
    LET d == DotPos(s)
        ip == SubSeq(s, 1, d - 1)
        fp == SubSeq(s, d + 1, Len(s))
    IN NatOf(ip) * Scale + (NatOf(fp) * Scale) \div Pow10(Len(fp))

InfWords == {<<"i", "n", "f">>, <<"i", "n", "f", "i", "n", "i", "t", "y">>}

\* the float a text parses to, NaN when it does not parse (errors="coerce")
to_numeric(s) ==
    LET t == strip(s)
        neg == t # <<>> /\ Head(t) = "-"
        signed == t # <<>> /\ Head(t) \in {"-", "+"}
        body == IF signed THEN Tail(t) ELSE t
    IN IF IsDecimal(body)
       THEN (IF neg THEN 0 - DecimalVal(body) ELSE DecimalVal(body))
       ELSE IF LowerStr(body) \in InfWords
       THEN (IF neg THEN NegInf ELSE PosInf)
       ELSE NaN

(***************************************************************************)
(* NiftyAnalyzer.COLUMN_MAP and the names of the columns.                  *)
(***************************************************************************)
RAW_SYMBOL == <<"S", "Y", "M", "B", "O", "L">>
RAW_PCHNG == <<"%", "C", "H", "N", "G">>
RAW_LTP == <<"L", "T", "P">>
RAW_52WH == <<"5", "2", "W", " ", "H">>
RAW_52WL == <<"5", "2", "W", " ", "L">>
RAW_30D == <<"3", "0", " ", "D", " ", " ", " ", "%", "C", "H", "N", "G">>

symbol == <<"s", "y", "m", "b", "o", "l">>
pChange == <<"p", "C", "h", "a", "n", "g", "e">>
lastPrice == <<"l", "a", "s", "t", "P", "r", "i", "c", "e">>
high_52_week == <<"h", "i", "g", "h", "_", "5", "2", "_", "w", "e", "e", "k">>
low_52_week == <<"l", "o", "w", "_", "5", "2", "_", "w", "e", "e", "k">>
change_30d == <<"c", "h", "a", "n", "g", "e", "_", "3", "0", "d">>

\* the dict, in its insertion order, as <<key, value>> pairs
COLUMN_MAP ==
    << <<RAW_SYMBOL, symbol>>, <<RAW_PCHNG, pChange>>, <<RAW_LTP, lastPrice>>,
       <<RAW_52WH, high_52_week>>, <<RAW_52WL, low_52_week>>,
       <<RAW_30D, change_30d>> >>

ColumnMapValues == {COLUMN_MAP[i][2] : i \in 1..Len(COLUMN_MAP)}

\* the columns the loop of _load_data converts
NumericColumns == <<pChange, lastPrice, high_52_week, low_52_week, change_30d>>

NumericSet == {NumericColumns[i] : i \in 1..Len(NumericColumns)}

(***************************************************************************)
(* Frames.  None and a frame are records of one shape, so that the two     *)
(* can be compared.                                                        *)
(***************************************************************************)
None == [none |-> TRUE, rows |-> <<>>]
Frame(rs) == [none |-> FALSE, rows |-> rs]

NoExtracts ==
    [gainers |-> None, losers |-> None, below_52_high |-> None,
     above_52_low |-> None, top_30d_returns |-> None]

(***************************************************************************)
(* _load_data.                                                             *)
(***************************************************************************)
\* the texts pd.read_csv reads as a missing value (its default na_values)
NaTokens ==
    { <<>>, <<"N", "A">>, <<"N", "a", "N">>, <<"n", "a", "n">>,
      <<"N", "/", "A">>, <<"n", "u", "l", "l">> }

NaCell == [na |-> TRUE, text |-> <<>>]

\* one cell as pd.read_csv delivers it
ReadCell(t) == IF t \in NaTokens THEN NaCell ELSE [na |-> FALSE, text |-> t]

\* pd.read_csv: the header row names the columns, the other rows are the
\* data.  A column read_csv infers to be numeric is given back by
\* astype(str) as text that parses to the same number, so cells are kept
\* as the text of the file.
read_csv(f) ==
    [columns |-> f.headers,
     data |-> [i \in 1..Len(f.rows) |->
                 [j \in 1..Len(f.headers) |-> ReadCell(f.rows[i][j])]]]

\* df.columns = [col.strip() for col in df.columns]
StripColumns(cols) == [j \in 1..Len(cols) |-> strip(cols[j])]

\* what df.rename(columns=COLUMN_MAP) makes of one column name
RenameOne(c) ==
    IF \E i \in 1..Len(COLUMN_MAP) : COLUMN_MAP[i][1] = c
    THEN COLUMN_MAP[CHOOSE i \in 1..Len(COLUMN_MAP) : COLUMN_MAP[i][1] = c][2]
    ELSE c

RenameColumns(cols) == [j \in 1..Len(cols) |-> RenameOne(cols[j])]

\* the column names of the frame after the strip and the rename
LoadedColumns(f) == RenameColumns(StripColumns(read_csv(f).columns))

\* [col for col in COLUMN_MAP.values() if col not in df.columns]
missing_columns(cols) ==
    {c \in ColumnMapValues : ~\E j \in 1..Len(cols) : cols[j] = c}

Positions(cols, c) == {j \in 1..Len(cols) : cols[j] = c}

\* df[col] is a frame, not a series, when two columns are named col, and
\* pd.to_numeric raises TypeError on a frame
ConversionRaises(cols) ==
    \E i \in 1..Len(NumericColumns) :
        Cardinality(Positions(cols, NumericColumns[i])) > 1

\* .astype(str)
astype_str(cell) == IF cell.na THEN <<"n", "a", "n">> ELSE cell.text

\* .replace("-", "NaN"): a whole-value match
ReplaceSentinel(t) == IF t = <<"-">> THEN <<"N", "a", "N">> ELSE t

\* pd.to_numeric(df[col].astype(str).replace("-", "NaN"), errors="coerce")
ConvertCell(cell) == to_numeric(ReplaceSentinel(astype_str(cell)))

\* whether df.dropna() keeps row r: no cell of any column is missing
RowComplete(cols, r) ==
    \A j \in 1..Len(cols) :
        IF cols[j] \in NumericSet THEN ~IsNaN(ConvertCell(r[j])) ELSE ~r[j].na

Col(cols, c) == CHOOSE j \in 1..Len(cols) : cols[j] = c

\* one row of the cleaned frame; idx is its label in the frame's index
Record(cols, r, i) ==
    [idx |-> i,
     symbol |-> astype_str(r[Col(cols, symbol)]),
     pChange |-> ConvertCell(r[Col(cols, pChange)]),
     lastPrice |-> ConvertCell(r[Col(cols, lastPrice)]),
     high_52_week |-> ConvertCell(r[Col(cols, high_52_week)]),
     low_52_week |-> ConvertCell(r[Col(cols, low_52_week)]),
     change_30d |-> ConvertCell(r[Col(cols, change_30d)])]

RECURSIVE KeptRows(_, _, _)
KeptRows(cols, data, i) ==
    IF i > Len(data) THEN <<>>
    ELSE (IF RowComplete(cols, data[i])
          THEN <<Record(cols, data[i], i)>> ELSE <<>>)
         \o KeptRows(cols, data, i + 1)

MissingMessage == <<"Error: Missing columns in CSV">>
LoadErrorMessage == <<"Error loading CSV file">>

\* what _load_data prints
LoadMessages(f) ==
    LET cols == LoadedColumns(f)
    IN IF missing_columns(cols) # {} THEN MissingMessage
       ELSE IF ConversionRaises(cols) THEN LoadErrorMessage
       ELSE <<>>

\* what _load_data returns
load_data(f) ==
    LET cols == LoadedColumns(f)
    IN IF missing_columns(cols) # {} THEN None
       ELSE IF ConversionRaises(cols) THEN None
       ELSE Frame(KeptRows(cols, read_csv(f).data, 1))

(***************************************************************************)
(* analyze.                                                                *)
(***************************************************************************)
\* the n of every nlargest / nsmallest call
TopN == 5

\* r goes before e in a descending (ascending) order by column col
Before(r, e, col, desc) == IF desc THEN r[col] > e[col] ELSE r[col] < e[col]

\* a sorted sequence with r put after every row it does not go before
RECURSIVE InsertRow(_, _, _, _)
InsertRow(sorted, r, col, desc) ==
    IF sorted = <<>> THEN <<r>>
    ELSE IF Before(r, Head(sorted), col, desc) THEN <<r>> \o sorted
    ELSE <<Head(sorted)>> \o InsertRow(Tail(sorted), r, col, desc)

\* a sorted sequence with r put before every row it does not come after
RECURSIVE InsertRowLast(_, _, _, _)
InsertRowLast(sorted, r, col, desc) ==
    IF sorted = <<>> THEN <<r>>
    ELSE IF ~Before(Head(sorted), r, col, desc) THEN <<r>> \o sorted
    ELSE <<Head(sorted)>> \o InsertRowLast(Tail(sorted), r, col, desc)

\* the stable sort (mergesort argsort) of the rows by column col
RECURSIVE SortRows(_, _, _)
SortRows(rs, col, desc) ==
    IF rs = <<>> THEN <<>>
    ELSE InsertRow(SortRows(SubSeq(rs, 1, Len(rs) - 1), col, desc),
                   rs[Len(rs)], col, desc)

\* the sort with equal keys in reverse order (keep="last")
RECURSIVE SortRowsLast(_, _, _)
SortRowsLast(rs, col, desc) ==
    IF rs = <<>> THEN <<>>
    ELSE InsertRowLast(SortRowsLast(SubSeq(rs, 1, Len(rs) - 1), col, desc),
                       rs[Len(rs)], col, desc)

FirstN(rs, n) == SubSeq(rs, 1, IF Len(rs) < n THEN Len(rs) ELSE n)

\* nlargest as keep="last" would give it
NLargestKeepLast(rs, n, col) == FirstN(SortRowsLast(rs, col, TRUE), n)
\* nlargest taking one row too few
NLargestShort(rs, n, col) == FirstN(SortRows(rs, col, TRUE), n - 1)

\* DataFrame.nlargest(n, col), keep="first": the n first rows of the frame
\* in descending order of col, rows of equal key in the order of the frame
nlargest(rs, n, col) == FirstN(SortRows(rs, col, TRUE), n)

\* DataFrame.nsmallest(n, col), keep="first"
nsmallest(rs, n, col) == FirstN(SortRows(rs, col, FALSE), n)

\* the two masks with the boundary left out
BelowHighStrict(r) == Times(10, r.lastPrice) < Times(7, r.high_52_week)
AboveLowStrict(r) == Times(5, r.lastPrice) > Times(6, r.low_52_week)

\* df["lastPrice"] <= 0.7 * df["high_52_week"].  The product is taken in
\* exact arithmetic; the prices explored are ones for which the float64
\* product of the code compares the same way.
BelowHigh(r) == Times(10, r.lastPrice) <= Times(7, r.high_52_week)

\* df["lastPrice"] >= 1.2 * df["low_52_week"], taken the same way
AboveLow(r) == Times(5, r.lastPrice) >= Times(6, r.low_52_week)

\* analyze without its "if self.df is None" guard, None read as no rows
AnalyzeNoGuard(d) ==
    [gainers |-> Frame(nlargest(d.rows, TopN, "pChange")),
     losers |-> Frame(nsmallest(d.rows, TopN, "pChange")),
     below_52_high |->
         Frame(nlargest(SelectSeq(d.rows, BelowHigh), TopN, "lastPrice")),
     above_52_low |->
         Frame(nsmallest(SelectSeq(d.rows, AboveLow), TopN, "lastPrice")),
     top_30d_returns |-> Frame(nlargest(d.rows, TopN, "change_30d"))]

\* the five values analyze returns
analyze(d) ==
    IF d.none THEN NoExtracts
    ELSE [gainers |-> Frame(nlargest(d.rows, TopN, "pChange")),
          losers |-> Frame(nsmallest(d.rows, TopN, "pChange")),
          below_52_high |->
              Frame(nlargest(SelectSeq(d.rows, BelowHigh), TopN, "lastPrice")),
          above_52_low |->
              Frame(nsmallest(SelectSeq(d.rows, AboveLow), TopN, "lastPrice")),
          top_30d_returns |-> Frame(nlargest(d.rows, TopN, "change_30d"))]

\* self.df after an analyze that sorted it in place
DfSortedInPlace(d) ==
    IF d.none THEN d ELSE Frame(SortRows(d.rows, "pChange", TRUE))

\* self.df after analyze: every operation of analyze builds a new frame
DfAfterAnalyze(d) == d

(***************************************************************************)
(* The files explored.  A file is its header row and its data rows, every  *)
(* row with one cell per header.                                           *)
(***************************************************************************)
\* the header row of the export: the six recognized headers and one more
BaseHeaders == << <<"S", "Y", "M", "B", "O", "L">>, <<"%", "C", "H", "N", "G">>, <<"L", "T", "P">>, <<"5", "2", "W", " ", "H">>, <<"5", "2", "W", " ", "L">>, <<"3", "0", " ", "D", " ", " ", " ", "%", "C", "H", "N", "G">>, <<"V", "O", "L", "U", "M", "E">> >>

\* rows, in the column order of BaseHeaders, that the long files are made
\* of: equal and different keys, prices on and off the two thresholds, a
\* price above its 52-week high
CleanRows ==
    { << <<"A">>, <<"5">>, <<"7", "0">>, <<"1", "0", "0">>, <<"5", "0">>, <<"2", ".", "5">>, <<"1", "0">> >>,
      << <<"B">>, <<"5">>, <<"7", "0", ".", "5">>, <<"1", "0", "0">>, <<"6", "0">>, <<"-", "1">>, <<"1", "0">> >>,
      << <<"D">>, <<"-", "3">>, <<"6", "0">>, <<"5", "5">>, <<"5", "0">>, <<"2", ".", "5">>, <<"-">> >> }

\* further rows: one more well-formed row, and rows with a separator
\* comma, a sentinel, an unparsable or infinite number, padding, or an
\* empty cell
DirtyRows ==
    { << <<"C">>, <<"1", "0">>, <<"4", "2">>, <<"1", "0", "0">>, <<"3", "5">>, <<"7">>, <<"1", "0">> >>,
      << <<"E">>, <<"1">>, <<"1", ",", "2", "3", "4", ".", "5">>, <<"2", "0", "0", "0">>, <<"1", "0", "0", "0">>, <<"3">>, <<"1", "0">> >>,
      << <<"F">>, <<"-">>, <<"7", "0">>, <<"1", "0", "0">>, <<"5", "0">>, <<"3">>, <<"1", "0">> >>,
      << <<"G">>, <<"2">>, <<"7", "0">>, <<"1", "0", "0">>, <<"5", "0">>, <<" ", "-", " ">>, <<"1", "0">> >>,
      << <<"H">>, <<"2">>, <<"a", "b">>, <<"1", "0", "0">>, <<"5", "0">>, <<"3">>, <<"1", "0">> >>,
      << <<"I">>, <<"i", "n", "f">>, <<"7", "0">>, <<"1", "0", "0">>, <<"5", "0">>, <<"3">>, <<"1", "0">> >>,
      << <<>>, <<"2">>, <<"7", "0">>, <<"1", "0", "0">>, <<"5", "0">>, <<"3">>, <<"1", "0">> >>,
      << <<"J">>, <<"2">>, <<"7", "0">>, <<"1", "0", "0">>, <<"5", "0">>, <<"3">>, <<>> >>,
      << <<"K">>, <<" ", "8", " ">>, <<"7", "0">>, <<"1", "0", "0">>, <<"5", "0">>, <<"3">>, <<"1", "0">> >>,
      << <<"L">>, <<"2">>, <<"7", "0">>, <<>>, <<"5", "0">>, <<"3">>, <<"1", "0">> >> }

RowPool == CleanRows \cup DirtyRows

SeqsUpTo(S, n) == UNION {[1..k -> S] : k \in 0..n}

BaseLayout == <<1, 2, 3, 4, 5, 6, 7>>

\* header rows other than the exact one, each with the base column that
\* fills each of its columns
HeaderVariants ==
    { \* surrounding whitespace on every header
      << << <<" ", "S", "Y", "M", "B", "O", "L">>, <<"%", "C", "H", "N", "G", " ">>, <<"\t", "L", "T", "P">>, <<" ", "5", "2", "W", " ", "H", " ">>, <<"5", "2", "W", " ", "L", " ", " ">>, <<" ", " ", "3", "0", " ", "D", " ", " ", " ", "%", "C", "H", "N", "G">>, <<"V", "O", "L", "U", "M", "E">> >>,
         << 1, 2, 3, 4, 5, 6, 7 >> >>,
      \* one header with a trailing space
      << << <<"S", "Y", "M", "B", "O", "L">>, <<"%", "C", "H", "N", "G">>, <<"L", "T", "P", " ">>, <<"5", "2", "W", " ", "H">>, <<"5", "2", "W", " ", "L">>, <<"3", "0", " ", "D", " ", " ", " ", "%", "C", "H", "N", "G">>, <<"V", "O", "L", "U", "M", "E">> >>,
         << 1, 2, 3, 4, 5, 6, 7 >> >>,
      \* single internal spaces in the 30-day header
      << << <<"S", "Y", "M", "B", "O", "L">>, <<"%", "C", "H", "N", "G">>, <<"L", "T", "P">>, <<"5", "2", "W", " ", "H">>, <<"5", "2", "W", " ", "L">>, <<"3", "0", " ", "D", " ", "%", "C", "H", "N", "G">>, <<"V", "O", "L", "U", "M", "E">> >>,
         << 1, 2, 3, 4, 5, 6, 7 >> >>,
      \* a doubled internal space
      << << <<"S", "Y", "M", "B", "O", "L">>, <<"%", "C", "H", "N", "G">>, <<"L", "T", "P">>, <<"5", "2", "W", " ", " ", "H">>, <<"5", "2", "W", " ", "L">>, <<"3", "0", " ", "D", " ", " ", " ", "%", "C", "H", "N", "G">>, <<"V", "O", "L", "U", "M", "E">> >>,
         << 1, 2, 3, 4, 5, 6, 7 >> >>,
      \* the canonical name as the raw header
      << << <<"S", "Y", "M", "B", "O", "L">>, <<"%", "C", "H", "N", "G">>, <<"l", "a", "s", "t", "P", "r", "i", "c", "e">>, <<"5", "2", "W", " ", "H">>, <<"5", "2", "W", " ", "L">>, <<"3", "0", " ", "D", " ", " ", " ", "%", "C", "H", "N", "G">>, <<"V", "O", "L", "U", "M", "E">> >>,
         << 1, 2, 3, 4, 5, 6, 7 >> >>,
      \* another case
      << << <<"S", "Y", "M", "B", "O", "L">>, <<"%", "C", "H", "N", "G">>, <<"l", "t", "p">>, <<"5", "2", "W", " ", "H">>, <<"5", "2", "W", " ", "L">>, <<"3", "0", " ", "D", " ", " ", " ", "%", "C", "H", "N", "G">>, <<"V", "O", "L", "U", "M", "E">> >>,
         << 1, 2, 3, 4, 5, 6, 7 >> >>,
      \* no symbol column
      << << <<"N", "A", "M", "E">>, <<"%", "C", "H", "N", "G">>, <<"L", "T", "P">>, <<"5", "2", "W", " ", "H">>, <<"5", "2", "W", " ", "L">>, <<"3", "0", " ", "D", " ", " ", " ", "%", "C", "H", "N", "G">>, <<"V", "O", "L", "U", "M", "E">> >>,
         << 1, 2, 3, 4, 5, 6, 7 >> >>,
      \* no %CHNG column
      << << <<"S", "Y", "M", "B", "O", "L">>, <<"L", "T", "P">>, <<"5", "2", "W", " ", "H">>, <<"5", "2", "W", " ", "L">>, <<"3", "0", " ", "D", " ", " ", " ", "%", "C", "H", "N", "G">>, <<"V", "O", "L", "U", "M", "E">> >>,
         << 1, 3, 4, 5, 6, 7 >> >>,
      \* two columns that strip to LTP
      << << <<"S", "Y", "M", "B", "O", "L">>, <<"%", "C", "H", "N", "G">>, <<"L", "T", "P">>, <<"5", "2", "W", " ", "H">>, <<"5", "2", "W", " ", "L">>, <<"3", "0", " ", "D", " ", " ", " ", "%", "C", "H", "N", "G">>, <<"V", "O", "L", "U", "M", "E">>, <<" ", "L", "T", "P">> >>,
         << 1, 2, 3, 4, 5, 6, 7, 3 >> >> }

File(headers, layout, rs) ==
    [none |-> FALSE,
     headers |-> headers,
     rows |-> [i \in 1..Len(rs) |-> [j \in 1..Len(layout) |-> rs[i][layout[j]]]]]

NoFile == [none |-> TRUE, headers |-> <<>>, rows |-> <<>>]

Inputs ==
    {File(BaseHeaders, BaseLayout, rs) : rs \in SeqsUpTo(CleanRows, MaxRows)}
    \cup {File(BaseHeaders, BaseLayout, rs) : rs \in SeqsUpTo(RowPool, MaxDirtyRows)}
    \cup {File(v[1], v[2], rs) : v \in HeaderVariants, rs \in SeqsUpTo(RowPool, MaxHdrRows)}

(***************************************************************************)
(* The __main__ flow.                                                      *)
(***************************************************************************)
NotPlotted == [called |-> FALSE, stocks |-> <<>>, percentage_change |-> <<>>]

\* frame[["symbol", col]]
Project(fr, col) == [i \in 1..Len(fr.rows) |-> <<fr.rows[i].symbol, fr.rows[i][col]>>]

Line(t) == [text |-> t, table |-> <<>>]
Section(t, fr, col) == [text |-> t, table |-> Project(fr, col)]

FetchFailedMessage == "Error: Failed to fetch NSE data."
ExtractionFailedMessage == "Error: Data extraction failed."

Init ==
    /\ csv_file = NoFile
    /\ df = None
    /\ extracts = NoExtracts
    /\ printed = <<>>
    /\ plotted = NotPlotted
    /\ pc = "start"
    /\ calls = 0

\* csv_file = scraper.download_csv(): None, or the path of the file
download_csv ==
    /\ pc = "start"
    /\ csv_file' \in {NoFile} \cup Inputs
    /\ pc' = "fetched"
    /\ UNCHANGED <<df, extracts, printed, plotted, calls>>

\* else: print("Error: Failed to fetch NSE data.")
MainNoFile ==
    /\ pc = "fetched"
    /\ csv_file.none
    /\ printed' = Append(printed, Line(FetchFailedMessage))
    /\ pc' = "done"
    /\ UNCHANGED <<csv_file, df, extracts, plotted, calls>>

\* analyzer = NiftyAnalyzer(csv_file)
MainNewAnalyzer ==
    /\ pc = "fetched"
    /\ ~csv_file.none
    /\ df' = load_data(csv_file)
    /\ printed' = printed \o [i \in 1..Len(LoadMessages(csv_file)) |->
                                 Line(LoadMessages(csv_file)[i])]
    /\ pc' = "constructed"
    /\ UNCHANGED <<csv_file, extracts, plotted, calls>>

\* gainers, losers, ... = analyzer.analyze()
MainAnalyze ==
    /\ pc = "constructed"
    /\ extracts' = analyze(df)
    /\ df' = DfAfterAnalyze(df)
    /\ calls' = calls + 1
    /\ pc' = "analyzed"
    /\ UNCHANGED <<csv_file, printed, plotted>>

\* if gainers is not None: the five print pairs, then plot_gainers_losers
MainReport ==
    /\ pc = "analyzed"
    /\ ~extracts.gainers.none
    /\ printed' = printed \o
         << Section("Top 5 Gainers", extracts.gainers, "pChange"),
            Section("Top 5 Losers", extracts.losers, "pChange"),
            Section("Stocks 30% Below 52-Week High", extracts.below_52_high, "lastPrice"),
            Section("Stocks 20% Above 52-Week Low", extracts.above_52_low, "lastPrice"),
            Section("Top 5 Stocks with Highest Returns in Last 30 Days",
                    extracts.top_30d_returns, "change_30d") >>
    /\ plotted' =
         [called |-> TRUE,
          stocks |-> [i \in 1..Len(extracts.gainers.rows) |-> extracts.gainers.rows[i].symbol]
                     \o [i \in 1..Len(extracts.losers.rows) |-> extracts.losers.rows[i].symbol],
          percentage_change |->
                     [i \in 1..Len(extracts.gainers.rows) |-> extracts.gainers.rows[i].pChange]
                     \o [i \in 1..Len(extracts.losers.rows) |-> extracts.losers.rows[i].pChange]]
    /\ pc' = "done"
    /\ UNCHANGED <<csv_file, df, extracts, calls>>

\* else: print("Error: Data extraction failed.")
MainExtractionFailed ==
    /\ pc = "analyzed"
    /\ extracts.gainers.none
    /\ printed' = Append(printed, Line(ExtractionFailedMessage))
    /\ pc' = "done"
    /\ UNCHANGED <<csv_file, df, extracts, plotted, calls>>

Next ==
    \/ download_csv
    \/ MainNoFile
    \/ MainNewAnalyzer
    \/ MainAnalyze
    \/ MainReport
    \/ MainExtractionFailed

Spec == Init /\ [][Next]_vars

(***************************************************************************)
(* An analyzer object used directly: constructed on a file, then analyze   *)
(* called any number of times.                                             *)
(***************************************************************************)
\* NiftyAnalyzer(csv_file)
NewAnalyzer ==
    /\ pc = "start"
    /\ \E f \in Inputs :
         /\ csv_file' = f
         /\ df' = load_data(f)
         /\ printed' = printed \o [i \in 1..Len(LoadMessages(f)) |->
                                      Line(LoadMessages(f)[i])]
    /\ pc' = "constructed"
    /\ UNCHANGED <<extracts, plotted, calls>>

\* analyzer.analyze()
AnalyzeCall ==
    /\ pc = "constructed"
    /\ calls < MaxCalls
    /\ extracts' = analyze(df)
    /\ df' = DfAfterAnalyze(df)
    /\ calls' = calls + 1
    /\ UNCHANGED <<csv_file, printed, plotted, pc>>

NextAnalyzer == NewAnalyzer \/ AnalyzeCall

SpecAnalyzer == Init /\ [][NextAnalyzer]_vars

(***************************************************************************)
(* Vocabulary of the properties.                                           *)
(***************************************************************************)
\* _load_data has run
Loaded == ~csv_file.none /\ pc \in {"constructed", "analyzed", "done"}

\* analyze has run on a loaded dataset
Analyzed == calls > 0 /\ ~df.none

SectionTitles ==
    {"Top 5 Gainers", "Top 5 Losers", "Stocks 30% Below 52-Week High",
     "Stocks 20% Above 52-Week Low",
     "Top 5 Stocks with Highest Returns in Last 30 Days"}

Printed(t) == \E i \in 1..Len(printed) : printed[i].text = t

\* h is key with whitespace, and nothing else, added before and after it
PaddedFrom(h, key) ==
    \E a \in 0..Len(h) :
        /\ a + Len(key) <= Len(h)
        /\ SubSeq(h, a + 1, a + Len(key)) = key
        /\ \A i \in 1..a : h[i] \in Whitespace
        /\ \A i \in (a + Len(key) + 1)..Len(h) : h[i] \in Whitespace

\* s with every run of whitespace made one space
RECURSIVE Collapse(_)
Collapse(s) ==
    IF s = <<>> THEN <<>>
    ELSE IF Head(s) \in Whitespace
    THEN (IF Len(s) > 1 /\ s[2] \in Whitespace
          THEN Collapse(Tail(s)) ELSE <<" ">> \o Collapse(Tail(s)))
    ELSE <<Head(s)>> \o Collapse(Tail(s))

\* h and key are equal up to surrounding whitespace and the length of the
\* runs of internal whitespace
SameUpToWhitespace(h, key) ==
    \E a \in 0..Len(h), b \in 0..Len(h) :
        /\ a + b <= Len(h)
        /\ \A i \in 1..a : h[i] \in Whitespace
        /\ \A i \in (Len(h) - b + 1)..Len(h) : h[i] \in Whitespace
        /\ Collapse(SubSeq(h, a + 1, Len(h) - b)) = Collapse(key)

Headers == csv_file.headers

\* some header of the file is translated to the canonical field of pair k
Located(k) ==
    \E j \in 1..Len(Headers) :
        PaddedFrom(Headers[j], COLUMN_MAP[k][1]) \/ PaddedFrom(Headers[j], COLUMN_MAP[k][2])

\* two headers of the file are translated to one numeric field
NumericFieldTwice ==
    \E k \in 2..Len(COLUMN_MAP) : \E i, j \in 1..Len(Headers) :
        /\ i # j
        /\ PaddedFrom(Headers[i], COLUMN_MAP[k][1]) \/ PaddedFrom(Headers[i], COLUMN_MAP[k][2])
        /\ PaddedFrom(Headers[j], COLUMN_MAP[k][1]) \/ PaddedFrom(Headers[j], COLUMN_MAP[k][2])

\* the text of row i of the file in the column translated to field c
CellOf(i, c) == csv_file.rows[i][Col(LoadedColumns(csv_file), c)]

\* the record of df made from row i of the file, if there is one
HasRecord(i) == \E k \in 1..Len(df.rows) : df.rows[k].idx = i
RecordOf(i) == df.rows[CHOOSE k \in 1..Len(df.rows) : df.rows[k].idx = i]

InFrame(fr, r) == \E k \in 1..Len(fr.rows) : fr.rows[k].idx = r.idx

Min(a, b) == IF a < b THEN a ELSE b

(***************************************************************************)
(* C1                                                                      *)
(***************************************************************************)
\* C1: when the translated header set lacks one of the six canonical fields,
\* _load_data returns None whatever the rows hold, analyze returns five
\* None, and __main__ prints the failure and neither an extract nor a plot.
C1_MissingColumnIsFatal ==
    (~csv_file.none /\ \E k \in 1..Len(COLUMN_MAP) : ~Located(k)) =>
        /\ Loaded => df = None
        /\ calls > 0 => extracts = NoExtracts
        /\ \A i \in 1..Len(printed) :
               printed[i].text \notin SectionTitles /\ printed[i].table = <<>>
        /\ ~plotted.called
        /\ pc = "done" => Printed(ExtractionFailedMessage)

C1_Witness ==
    /\ pc = "done"
    /\ ~csv_file.none
    /\ \E k \in 1..Len(COLUMN_MAP) : ~Located(k)
    /\ Len(csv_file.rows) > 0
    /\ Printed(ExtractionFailedMessage)

RemoveCommas(t) == SelectSeq(t, LAMBDA c : c # ",")

HasComma(t) == \E n \in 1..Len(t) : t[n] = ","

\* t reads as a finite decimal number
ValidNumber(t) == IsFinite(to_numeric(t))

\* the six canonical columns were located, once each
DatasetExpected ==
    Loaded /\ (\A k \in 1..Len(COLUMN_MAP) : Located(k)) /\ ~NumericFieldTwice

\* the value record r holds for the numeric field named c
Value(r, c) ==
    CASE c = pChange -> r.pChange
      [] c = lastPrice -> r.lastPrice
      [] c = high_52_week -> r.high_52_week
      [] c = low_52_week -> r.low_52_week
      [] c = change_30d -> r.change_30d

\* C3: a row with thousands-separator commas in one numeric cell, the cell
\* a valid number once they are removed and the other four numeric cells
\* valid, is kept, and the cell's value is that of the text without commas.
C3_CommaCellsParsed ==
    DatasetExpected =>
        \A i \in 1..Len(csv_file.rows) : \A c \in NumericSet :
            ( /\ HasComma(CellOf(i, c))
              /\ ValidNumber(RemoveCommas(CellOf(i, c)))
              /\ \A o \in NumericSet \ {c} : ValidNumber(CellOf(i, o)) )
            => ( /\ ~df.none
                 /\ HasRecord(i)
                 /\ Value(RecordOf(i), c) = to_numeric(RemoveCommas(CellOf(i, c))) )

\* C4: every record of the loaded dataset has its five numeric fields
\* defined and finite, and no row with a sentinel or unparsable numeric cell
\* is in it.
C4_RecordsFinite ==
    (Loaded /\ ~df.none) =>
        /\ \A k \in 1..Len(df.rows) : \A c \in NumericSet :
               IsFinite(Value(df.rows[k], c))
        /\ \A i \in 1..Len(csv_file.rows) :
               (\E c \in NumericSet :
                    strip(CellOf(i, c)) = <<"-">> \/ IsNaN(to_numeric(CellOf(i, c))))
               => ~HasRecord(i)

\* the numeric cell t is defined under the normalization of the
\* specification: not the sentinel once trimmed, and a decimal number once
\* its commas are removed
DefinedCell(t) == strip(t) # <<"-">> /\ ValidNumber(RemoveCommas(t))

\* C5: when the six canonical columns are present the dataset is exactly the
\* rows, in source order, whose five numeric cells are all defined; no other
\* column decides, and bad cells never make the load fail.
C5_ExclusionByNumericFieldsOnly ==
    DatasetExpected =>
        /\ ~df.none
        /\ \A i \in 1..Len(csv_file.rows) :
               HasRecord(i) <=> \A c \in NumericSet : DefinedCell(CellOf(i, c))
        /\ \A k \in 1..(Len(df.rows) - 1) : df.rows[k].idx < df.rows[k + 1].idx

(***************************************************************************)
(* C6, C7                                                                  *)
(***************************************************************************)
\* out is ordered by column col (descending or ascending), rows of equal
\* key in the order of the dataset, and a row left out never has the key of
\* a later row of the dataset that was taken
StableRanked(out, col, desc) ==
    /\ \A i, j \in 1..Len(out.rows) :
           i < j =>
               /\ IF desc THEN out.rows[i][col] >= out.rows[j][col]
                          ELSE out.rows[i][col] <= out.rows[j][col]
               /\ out.rows[i][col] = out.rows[j][col]
                      => out.rows[i].idx < out.rows[j].idx
    /\ \A k \in 1..Len(df.rows) : \A i \in 1..Len(out.rows) :
           (~InFrame(out, df.rows[k]) /\ df.rows[k][col] = out.rows[i][col])
               => out.rows[i].idx < df.rows[k].idx

\* C6: topGainers, top30dReturns and topLosers are ordered by their key, and
\* of two records with equal key the one earlier in the dataset comes first
\* and is taken in preference to the other.
C6_StableRanking ==
    Analyzed =>
        /\ StableRanked(extracts.gainers, "pChange", TRUE)
        /\ StableRanked(extracts.top_30d_returns, "change_30d", TRUE)
        /\ StableRanked(extracts.losers, "pChange", FALSE)

\* a tie at the cut: a record left out of topGainers has the pChange of one
\* that was taken
C6_Witness ==
    /\ Analyzed
    /\ \E k \in 1..Len(df.rows) : \E i \in 1..Len(extracts.gainers.rows) :
           /\ ~InFrame(extracts.gainers, df.rows[k])
           /\ df.rows[k].pChange = extracts.gainers.rows[i].pChange

\* out holds min(5, |dataset|) distinct records of the dataset, each with a
\* key no worse than that of every record left out
BestOf(out, col, desc) ==
    /\ Len(out.rows) = Min(TopN, Len(df.rows))
    /\ \A i \in 1..Len(out.rows) : \E k \in 1..Len(df.rows) : df.rows[k] = out.rows[i]
    /\ \A i, j \in 1..Len(out.rows) : i # j => out.rows[i].idx # out.rows[j].idx
    /\ \A k \in 1..Len(df.rows) : \A i \in 1..Len(out.rows) :
           ~InFrame(out, df.rows[k]) =>
               IF desc THEN out.rows[i][col] >= df.rows[k][col]
                       ELSE out.rows[i][col] <= df.rows[k][col]

\* C7: topGainers and top30dReturns hold exactly min(5, |records|) distinct
\* records, each with a key >= that of every record not selected; topLosers
\* likewise with <=; a short or empty dataset gives what there is.
C7_TopNSelection ==
    (calls > 0 /\ ~df.none) =>
        /\ ~extracts.gainers.none /\ ~extracts.losers.none
        /\ ~extracts.top_30d_returns.none
        /\ BestOf(extracts.gainers, "pChange", TRUE)
        /\ BestOf(extracts.top_30d_returns, "change_30d", TRUE)
        /\ BestOf(extracts.losers, "pChange", FALSE)

\* more records than fit, and a record left out with a strictly worse key
C7_Witness ==
    /\ Analyzed
    /\ Len(df.rows) > TopN
    /\ Len(extracts.gainers.rows) = TopN
    /\ \E k \in 1..Len(df.rows) :
           /\ ~InFrame(extracts.gainers, df.rows[k])
           /\ \A i \in 1..TopN : extracts.gainers.rows[i].pChange > df.rows[k].pChange

(***************************************************************************)
(* C8, C9                                                                  *)
(***************************************************************************)
\* lastPrice <= 0.7 * high52week
QualifiesBelowHigh(r) == Times(10, r.lastPrice) <= Times(7, r.high_52_week)

\* lastPrice >= 1.2 * low52week
QualifiesAboveLow(r) == Times(5, r.lastPrice) >= Times(6, r.low_52_week)

\* the number of records of d with lastPrice <= 0.7 * high52week that rank
\* before r by lastPrice, higher first, earlier row first among equals
AheadBelowHigh(d, r) ==
    Cardinality({k \in 1..Len(d.rows) :
        /\ QualifiesBelowHigh(d.rows[k])
        /\ \/ d.rows[k].lastPrice > r.lastPrice
           \/ (d.rows[k].lastPrice = r.lastPrice /\ d.rows[k].idx < r.idx)})

\* the number of records of d with lastPrice >= 1.2 * low52week that rank
\* before r by lastPrice, lower first, earlier row first among equals
AheadAboveLow(d, r) ==
    Cardinality({k \in 1..Len(d.rows) :
        /\ QualifiesAboveLow(d.rows[k])
        /\ \/ d.rows[k].lastPrice < r.lastPrice
           \/ (d.rows[k].lastPrice = r.lastPrice /\ d.rows[k].idx < r.idx)})

\* the least high52week for which lastPrice <= 0.7 * high52week
LeastQualifyingHigh(lp) == (10 * lp + 6) \div 7

C9_AboveLowExtract ==
    (calls > 0 /\ ~df.none) =>
        LET out == extracts.above_52_low
        IN /\ ~out.none
           /\ \A i \in 1..Len(out.rows) : \E k \in 1..Len(df.rows) : df.rows[k] = out.rows[i]
           /\ \A k \in 1..Len(df.rows) :
                  InFrame(out, df.rows[k])
                      <=> /\ QualifiesAboveLow(df.rows[k])
                          /\ AheadAboveLow(df, df.rows[k]) < TopN
           /\ Len(out.rows) = Min(TopN, Len(SelectSeq(df.rows, QualifiesAboveLow)))
           /\ \A i, j \in 1..Len(out.rows) :
                  i < j => /\ out.rows[i].lastPrice <= out.rows[j].lastPrice
                           /\ out.rows[i].lastPrice = out.rows[j].lastPrice
                                  => out.rows[i].idx < out.rows[j].idx

\* the extract holds a record on the boundary whose lastPrice is above its
\* 52-week high, and leaves out both a record that does not qualify and one
\* that qualifies
C9_Witness ==
    /\ Analyzed
    /\ \E i \in 1..Len(extracts.above_52_low.rows) :
           LET r == extracts.above_52_low.rows[i]
           IN 5 * r.lastPrice = 6 * r.low_52_week /\ r.lastPrice > r.high_52_week
    /\ \E k \in 1..Len(df.rows) : ~QualifiesAboveLow(df.rows[k])
    /\ \E k \in 1..Len(df.rows) :
           QualifiesAboveLow(df.rows[k]) /\ ~InFrame(extracts.above_52_low, df.rows[k])

====
